---------------------------- MODULE Spec2Model ----------------------------
(***************************************************************************)
(* createXcrunch: the configuration model (lib.rs Config::new), the reward *)
(* evaluator (webgpu.rs parse_pattern / check_eth_address_pattern) and the *)
(* batch search loop (webgpu.rs gpu, started from main.rs main).           *)
(*                                                                         *)
(* Strings are sequences of one-character strings, byte arrays sequences   *)
(* of numbers in 0..255 (1-based: Rust index i is TLA+ index i+1).         *)
(***************************************************************************)
EXTENDS Integers, Sequences, FiniteSets, TLC

VARIABLES
    pc,              \* position of the main thread
    args,            \* the raw inputs handed to Config::new by main
    config,          \* the Config that Config::new returned, or NoConfig
    RAW_PATTERN,     \* static mut RAW_PATTERN: Option<String>
    PREFIX,          \* static mut PREFIX inside check_eth_address_pattern
    SUFFIX,          \* static mut SUFFIX inside check_eth_address_pattern
    pattern_config,  \* <<pattern_value, pattern_flags, pattern_length>> of gpu()
    nonce,           \* let mut nonce: u64, as its eight little-endian bytes
    message_buffer,  \* the 32-byte input buffer read by the hash oracle
    results,         \* the results of the last batch read back from the oracle
    matched,         \* matches_pattern for each of those results
    file,            \* lines of the output file
    found,           \* let mut found: u64
    total_cycles,    \* let mut total_cycles: u64
    found_list,      \* found_list: Arc<Mutex<Vec<String>>>
    stderr,          \* diagnostics printed so far
    faults,          \* failures of the environment (file system, device) so far
    map_result,      \* what receiver.receive() gave for the last map_async
    covered,         \* the counter ranges the oracle was handed, adjacent ones joined
    interrupted,     \* the user has pressed Ctrl+C
    other            \* a second process started on the same output path

vars == <<pc, args, config, RAW_PATTERN, PREFIX, SUFFIX, pattern_config, nonce,
          message_buffer, results, matched, file, found, total_cycles,
          found_list, stderr, faults, map_result, covered, interrupted, other>>

-----------------------------------------------------------------------------
(* Program constants. *)

SALT_SIZE == 32

ADDRESS_SIZE == 20

MAX_THRESHOLD == 20

CHAIN_ID_OFFSET == 24

NONREPEATING_FLAG == 99

\* Option<T>: None is the empty sequence, Some(x) the one-element sequence.
None == <<>>

Some(x) == <<x>>

is_some(o) == o # <<>>

unwrap(o) == o[1]

-----------------------------------------------------------------------------
(* Bytes, characters and hexadecimal text. *)

Zeros(n) == [i \in 1..n |-> 0]

Rep(x, n) == [i \in 1..n |-> x]

RECURSIVE to_le_bytes(_, _)
to_le_bytes(x, n) ==
    IF n = 0 THEN <<>> ELSE <<x % 256>> \o to_le_bytes(x \div 256, n - 1)

Reverse(s) == [i \in 1..Len(s) |-> s[Len(s) + 1 - i]]

to_be_bytes(x, n) == Reverse(to_le_bytes(x, n))

\* Unsigned integers of 32 and 64 bits are kept as their little-endian bytes.
\* add_le is addition at the width of bytes: a carry out of the top byte is lost.
RECURSIVE add_le(_, _)
add_le(bytes, x) ==
    IF bytes = <<>> THEN <<>>
    ELSE <<(Head(bytes) + x) % 256>> \o add_le(Tail(bytes), (Head(bytes) + x) \div 256)

\* a < b for two values of the same width, decided from byte i downwards.
RECURSIVE less_from(_, _, _)
less_from(a, b, i) ==
    IF i = 0 THEN FALSE
    ELSE IF a[i] # b[i] THEN a[i] < b[i]
    ELSE less_from(a, b, i - 1)

less_le(a, b) == less_from(a, b, Len(a))

\* `x as u64` of a u32 and `x as u32` of a u64.
as_u64(x) == x \o Zeros(8 - Len(x))

as_u32(x) == SubSeq(x, 1, 4)

LowerHexDigits ==
    <<"0", "1", "2", "3", "4", "5", "6", "7", "8", "9", "a", "b", "c", "d", "e", "f">>

UpperHexDigits ==
    <<"0", "1", "2", "3", "4", "5", "6", "7", "8", "9", "A", "B", "C", "D", "E", "F">>

is_ascii_hexdigit(c) ==
    \E i \in 1..16 : c = LowerHexDigits[i] \/ c = UpperHexDigits[i]

is_uppercase(c) == \E i \in 11..16 : c = UpperHexDigits[i]

char_to_lowercase(c) ==
    IF is_uppercase(c)
    THEN LowerHexDigits[CHOOSE i \in 11..16 : c = UpperHexDigits[i]]
    ELSE c

to_lowercase(s) == [i \in 1..Len(s) |-> char_to_lowercase(s[i])]

HexVal(c) ==
    (CHOOSE i \in 1..16 : c = LowerHexDigits[i] \/ c = UpperHexDigits[i]) - 1

\* u8::from_str_radix(s, 16) for a two-character s: Ok(value) or Err.
from_str_radix(s) ==
    IF Len(s) = 2 /\ is_ascii_hexdigit(s[1]) /\ is_ascii_hexdigit(s[2])
    THEN [ok |-> TRUE, value |-> 16 * HexVal(s[1]) + HexVal(s[2])]
    ELSE [ok |-> FALSE, value |-> 0]

\* hex::encode: two lower-case digits per byte, high nibble first.
hex_encode(bytes) ==
    [i \in 1..(2 * Len(bytes)) |->
        LET b == bytes[(i + 1) \div 2]
        IN  IF i % 2 = 1 THEN LowerHexDigits[(b \div 16) + 1]
                         ELSE LowerHexDigits[(b % 16) + 1]]

starts_with(s, p) == Len(p) <= Len(s) /\ SubSeq(s, 1, Len(p)) = p

ends_with(s, p) ==
    Len(p) <= Len(s) /\ SubSeq(s, Len(s) - Len(p) + 1, Len(s)) = p

Dots == <<".", ".", ".">>

\* Index of the first occurrence of "..." in s, 0 when there is none.
FindDots(s) ==
    LET hits == {i \in 1..(Len(s) - 2) : SubSeq(s, i, i + 2) = Dots}
    IN  IF hits = {} THEN 0 ELSE CHOOSE i \in hits : \A j \in hits : i <= j

contains_dots(s) == FindDots(s) # 0

\* str::split("..."): the pieces between non-overlapping occurrences, left to right.
RECURSIVE split_dots(_)
split_dots(s) ==
    LET i == FindDots(s)
    IN  IF i = 0 THEN <<s>>
        ELSE <<SubSeq(s, 1, i - 1)>> \o split_dots(SubSeq(s, i + 3, Len(s)))

-----------------------------------------------------------------------------
(* RewardVariant (lib.rs) and its translation to the pattern configuration. *)

LeadingZeros(n) ==
    [kind |-> "LeadingZeros", zeros_threshold |-> n,
     leading_zeros_threshold |-> 0, total_zeros_threshold |-> 0, pattern |-> <<>>]

TotalZeros(n) ==
    [kind |-> "TotalZeros", zeros_threshold |-> n,
     leading_zeros_threshold |-> 0, total_zeros_threshold |-> 0, pattern |-> <<>>]

LeadingAndTotalZeros(l, t) ==
    [kind |-> "LeadingAndTotalZeros", zeros_threshold |-> 0,
     leading_zeros_threshold |-> l, total_zeros_threshold |-> t, pattern |-> <<>>]

LeadingOrTotalZeros(l, t) ==
    [kind |-> "LeadingOrTotalZeros", zeros_threshold |-> 0,
     leading_zeros_threshold |-> l, total_zeros_threshold |-> t, pattern |-> <<>>]

Matching(p) ==
    [kind |-> "Matching", zeros_threshold |-> 0,
     leading_zeros_threshold |-> 0, total_zeros_threshold |-> 0, pattern |-> p]

\* for i in (0..leading_part.len()).step_by(2): &leading_part[i..i+2] == first_byte
is_repeating(leading_part) ==
    \A k \in 0..((Len(leading_part) \div 2) - 1) :
        SubSeq(leading_part, 2 * k + 1, 2 * k + 2) = SubSeq(leading_part, 1, 2)

\* The repeating-prefix branch of parse_pattern: <<value, flags, length, trailing>>.
parse_repeating(leading_part, trailing_part) ==
    LET value == from_str_radix(SubSeq(leading_part, 1, 2))
        trailing == from_str_radix(trailing_part)
        len == Len(leading_part) \div 2
    IN  IF ~value.ok THEN <<0, 0, 0, 0>>
        ELSE IF trailing_part # <<>> /\ Len(trailing_part) = 2
             THEN IF trailing.ok THEN <<value.value, 5, len, trailing.value>>
                                 ELSE <<value.value, 0, len, 0>>
             ELSE <<value.value, 4, len, 0>>

parse_pattern(pattern) ==
    LET parts == split_dots(pattern)
        leading_part == parts[1]
        trailing_part == parts[2]
        r == IF contains_dots(pattern) /\ Len(parts) = 2
                /\ leading_part # <<>> /\ Len(leading_part) % 2 = 0
                /\ is_repeating(leading_part)
             THEN parse_repeating(leading_part, trailing_part)
             ELSE <<0, 0, 0, 0>>
    IN  IF pattern = <<>> THEN <<0, 0, 0>>
        ELSE IF contains_dots(pattern) /\ Len(parts) = 2
                /\ leading_part # <<>> /\ Len(leading_part) % 2 = 0
                /\ trailing_part # <<>> /\ Len(trailing_part) = 2
             THEN <<NONREPEATING_FLAG, NONREPEATING_FLAG, 0>>
        ELSE IF r[2] = 5 THEN <<r[1] + 256 * r[4], r[2], r[3]>>
        ELSE <<r[1], r[2], r[3]>>

\* gpu(): let (pattern_value, pattern_flags, pattern_length) = match &config.reward
RewardPatternConfig(reward) ==
    CASE reward.kind = "Matching" -> parse_pattern(reward.pattern)
      [] reward.kind = "LeadingZeros" -> <<0, 4, reward.zeros_threshold>>
      [] reward.kind = "TotalZeros" -> <<0, 5, reward.zeros_threshold>>
      [] reward.kind = "LeadingAndTotalZeros" ->
            <<reward.leading_zeros_threshold, 6, reward.total_zeros_threshold>>
      [] reward.kind = "LeadingOrTotalZeros" ->
            <<reward.leading_zeros_threshold, 7, reward.total_zeros_threshold>>

-----------------------------------------------------------------------------
(* The reward evaluator, webgpu.rs check_eth_address_pattern. *)

\* CachedParts that keeps the cached suffix for one call only.
CachedParts_forgetting_suffix(raw, prefix, suffix) ==
    IF (prefix = None \/ suffix = None)
       /\ is_some(raw) /\ contains_dots(unwrap(raw))
       /\ Len(split_dots(unwrap(raw))) = 2
    THEN <<Some(to_lowercase(split_dots(unwrap(raw))[1])),
           Some(to_lowercase(split_dots(unwrap(raw))[2]))>>
    ELSE <<prefix, Some(<<>>)>>

\* The lazily initialised PREFIX / SUFFIX statics after the `if PREFIX.is_none()
\* || SUFFIX.is_none()` block: <<PREFIX, SUFFIX>>.
CachedParts(raw, prefix, suffix) ==
    IF (prefix = None \/ suffix = None)
       /\ is_some(raw) /\ contains_dots(unwrap(raw))
       /\ Len(split_dots(unwrap(raw))) = 2
    THEN <<Some(to_lowercase(split_dots(unwrap(raw))[1])),
           Some(to_lowercase(split_dots(unwrap(raw))[2]))>>
    ELSE <<prefix, suffix>>

\* check_nonrepeating that tests the cached prefix alone.
check_nonrepeating_prefix_only(address_bytes, raw, prefix, suffix) ==
    IF is_some(prefix) /\ is_some(suffix)
    THEN starts_with(hex_encode(address_bytes), unwrap(prefix))
    ELSE starts_with(hex_encode(address_bytes),
                     to_lowercase(IF is_some(raw) THEN unwrap(raw) ELSE <<>>))

\* The pattern_flags == 99 branch once the statics have been looked at.
check_nonrepeating(address_bytes, raw, prefix, suffix) ==
    LET address_hex == hex_encode(address_bytes)
        pattern_str == IF is_some(raw) THEN unwrap(raw) ELSE <<>>
        parts == split_dots(pattern_str)
    IN  IF is_some(prefix) /\ is_some(suffix)
        THEN starts_with(address_hex, unwrap(prefix))
             /\ ends_with(address_hex, unwrap(suffix))
        ELSE IF contains_dots(pattern_str) /\ Len(parts) = 2
             THEN starts_with(address_hex, to_lowercase(parts[1]))
                  /\ ends_with(address_hex, to_lowercase(parts[2]))
             ELSE starts_with(address_hex, to_lowercase(pattern_str))

\* check_multiple_leading whose slow path starts at the second byte.
check_multiple_leading_from1(address_bytes, pattern_value, pattern_length) ==
    IF pattern_length = 1 THEN address_bytes[1] = pattern_value
    ELSE IF pattern_length = 2
         THEN address_bytes[1] = pattern_value /\ address_bytes[2] = pattern_value
    ELSE \A i \in 1..(pattern_length - 1) :
            ~(i >= Len(address_bytes) \/ address_bytes[i + 1] # pattern_value)

\* match arm 4: the first pattern_length bytes equal pattern_value.
check_multiple_leading(address_bytes, pattern_value, pattern_length) ==
    IF pattern_length = 1 THEN address_bytes[1] = pattern_value
    ELSE IF pattern_length = 2
         THEN address_bytes[1] = pattern_value /\ address_bytes[2] = pattern_value
    ELSE \A i \in 0..(pattern_length - 1) :
            ~(i >= Len(address_bytes) \/ address_bytes[i + 1] # pattern_value)

\* match arm 5: leading bytes and the last byte; the trailing byte is taken from
\* bits 8..15 of a u8, which are always zero.
check_complex(address_bytes, pattern_value, pattern_length) ==
    LET leading_byte == pattern_value
        trailing_byte == (pattern_value \div 256) % 256
    IN  /\ ~(address_bytes[1] # leading_byte
             \/ address_bytes[Len(address_bytes)] # trailing_byte)
        /\ \A i \in 1..(pattern_length - 1) :
              ~(i >= Len(address_bytes) \/ address_bytes[i + 1] # leading_byte)

\* match arm _: the hard-coded "abcd" prefix and "ef" suffix.
check_default(address_bytes) ==
    /\ starts_with(hex_encode(address_bytes), <<"a", "b", "c", "d">>)
    /\ ends_with(hex_encode(address_bytes), <<"e", "f">>)

\* The boolean check_eth_address_pattern returns; prefix and suffix are the
\* statics as they stand when the cached parts are read.
check_result(address_bytes, pattern_value, pattern_flags, pattern_length, raw, prefix, suffix) ==
    IF address_bytes = <<>> THEN FALSE
    ELSE IF pattern_flags = NONREPEATING_FLAG
         THEN check_nonrepeating(address_bytes, raw, prefix, suffix)
    ELSE CASE pattern_flags \in {0, 1} -> address_bytes[1] = pattern_value
           [] pattern_flags = 2 -> address_bytes[Len(address_bytes)] = pattern_value
           [] pattern_flags = 3 ->
                 /\ address_bytes[1] = pattern_value
                 /\ address_bytes[Len(address_bytes)] = pattern_value
           [] pattern_flags = 4 ->
                 check_multiple_leading(address_bytes, pattern_value, pattern_length)
           [] pattern_flags = 5 ->
                 check_complex(address_bytes, pattern_value, pattern_length)
           [] OTHER -> check_default(address_bytes)

\* One call: the result and the statics it leaves behind.
check_eth_address_pattern(address_bytes, pattern_value, pattern_flags, pattern_length, raw, prefix, suffix) ==
    LET cached == IF address_bytes # <<>> /\ pattern_flags = NONREPEATING_FLAG
                  THEN CachedParts(raw, prefix, suffix)
                  ELSE <<prefix, suffix>>
    IN  [result |-> check_result(address_bytes, pattern_value, pattern_flags,
                                 pattern_length, raw, cached[1], cached[2]),
         PREFIX |-> cached[1],
         SUFFIX |-> cached[2]]

\* `pattern_value as u8` at the call site in gpu().
as_u8(x) == x % 256

-----------------------------------------------------------------------------
(* The configuration model, lib.rs Config::new. *)

\* hex::decode: an optional "0x" prefix, then two hex digits per byte.
hex_decode(str) ==
    LET body == IF starts_with(str, <<"0", "x">>) THEN SubSeq(str, 3, Len(str))
                ELSE str
    IN  IF Len(body) % 2 # 0 \/ \E i \in 1..Len(body) : ~is_ascii_hexdigit(body[i])
        THEN [ok |-> FALSE, bytes |-> <<>>]
        ELSE [ok |-> TRUE,
              bytes |-> [i \in 1..(Len(body) \div 2) |->
                            16 * HexVal(body[2 * i - 1]) + HexVal(body[2 * i])]]

\* chain_id.map(|chain_id| { arr[24..].copy_from_slice(&chain_id.to_be_bytes()) })
encode_chain_id(chain_id) ==
    Zeros(CHAIN_ID_OFFSET) \o to_be_bytes(chain_id, SALT_SIZE - CHAIN_ID_OFFSET)

\* validate_zeros_threshold that turns the largest threshold away too.
validate_zeros_threshold_below(threshold) ==
    IF threshold = 0 THEN "threshold must be greater than 0"
    ELSE IF threshold >= MAX_THRESHOLD THEN "threshold must be less than 20"
    ELSE "Ok"

validate_zeros_threshold(threshold) ==
    IF threshold = 0 THEN "threshold must be greater than 0"
    ELSE IF threshold > MAX_THRESHOLD THEN "threshold must be less than 20"
    ELSE "Ok"

all_hex(s) == \A i \in 1..Len(s) : is_ascii_hexdigit(s[i])

\* validate_pattern that lets a trailing part of one character through.
validate_pattern_short_trailing(pattern) ==
    LET parts == split_dots(pattern)
        leading_part == parts[1]
        trailing_part == parts[2]
    IN  IF pattern = <<>> THEN "pattern cannot be empty"
        ELSE IF contains_dots(pattern)
        THEN IF Len(parts) # 2 THEN "pattern must have exactly one '...' separator"
             ELSE IF leading_part = <<>> THEN "leading part of pattern cannot be empty"
             ELSE IF Len(leading_part) % 2 # 0
                  THEN "leading part must have even number of characters"
             ELSE IF ~all_hex(leading_part)
                  THEN "leading part must contain only hex characters"
             ELSE IF trailing_part # <<>> /\ Len(trailing_part) > 2
                  THEN "trailing part must be exactly 2 characters"
             ELSE IF trailing_part # <<>> /\ ~all_hex(trailing_part)
                  THEN "trailing part must contain only hex characters"
             ELSE "Ok"
        ELSE IF Len(pattern) # 2 THEN "simple pattern must be exactly 2 characters"
        ELSE IF ~all_hex(pattern) THEN "pattern must contain only hex characters"
        ELSE "Ok"

validate_pattern(pattern) ==
    LET parts == split_dots(pattern)
        leading_part == parts[1]
        trailing_part == parts[2]
    IN  IF pattern = <<>> THEN "pattern cannot be empty"
        ELSE IF contains_dots(pattern)
        THEN IF Len(parts) # 2 THEN "pattern must have exactly one '...' separator"
             ELSE IF leading_part = <<>> THEN "leading part of pattern cannot be empty"
             ELSE IF Len(leading_part) % 2 # 0
                  THEN "leading part must have even number of characters"
             ELSE IF ~all_hex(leading_part)
                  THEN "leading part must contain only hex characters"
             ELSE IF trailing_part # <<>> /\ Len(trailing_part) # 2
                  THEN "trailing part must be exactly 2 characters"
             ELSE IF trailing_part # <<>> /\ ~all_hex(trailing_part)
                  THEN "trailing part must contain only hex characters"
             ELSE "Ok"
        ELSE IF Len(pattern) # 2 THEN "simple pattern must be exactly 2 characters"
        ELSE IF ~all_hex(pattern) THEN "pattern must contain only hex characters"
        ELSE "Ok"

\* match &reward { ... } with the ? of each validation.
validate_reward(reward) ==
    CASE reward.kind \in {"LeadingZeros", "TotalZeros"} ->
            validate_zeros_threshold(reward.zeros_threshold)
      [] reward.kind \in {"LeadingOrTotalZeros", "LeadingAndTotalZeros"} ->
            IF validate_zeros_threshold(reward.leading_zeros_threshold) # "Ok"
            THEN validate_zeros_threshold(reward.leading_zeros_threshold)
            ELSE validate_zeros_threshold(reward.total_zeros_threshold)
      [] reward.kind = "Matching" -> validate_pattern(reward.pattern)

SaltRandom == [kind |-> "Random", chain_id |-> <<>>, calling_address |-> <<>>]

Sender(calling_address) ==
    [kind |-> "Sender", chain_id |-> <<>>, calling_address |-> calling_address]

Crosschain(chain_id) ==
    [kind |-> "Crosschain", chain_id |-> chain_id, calling_address |-> <<>>]

CrosschainSender(chain_id, calling_address) ==
    [kind |-> "CrosschainSender", chain_id |-> chain_id,
     calling_address |-> calling_address]

\* salt_variant_of with the arms for one supplied input tried first.
salt_variant_of_onefirst(chain_id, calling_address) ==
    IF is_some(calling_address) /\ unwrap(calling_address) # Zeros(ADDRESS_SIZE)
    THEN [kind |-> "Sender", chain_id |-> <<>>,
          calling_address |-> unwrap(calling_address)]
    ELSE IF is_some(chain_id) /\ calling_address = None
    THEN [kind |-> "Crosschain", chain_id |-> unwrap(chain_id),
          calling_address |-> <<>>]
    ELSE [kind |-> "Random", chain_id |-> <<>>, calling_address |-> <<>>]

\* let salt_variant = match (chain_id, calling_address) { ... }
\* chain_id: Option<[u8; 32]>, calling_address: Option<[u8; 20]>
salt_variant_of(chain_id, calling_address) ==
    IF is_some(chain_id) /\ is_some(calling_address)
       /\ unwrap(calling_address) # Zeros(ADDRESS_SIZE)
    THEN CrosschainSender(unwrap(chain_id), unwrap(calling_address))
    ELSE IF is_some(chain_id) /\ calling_address = None
    THEN Crosschain(unwrap(chain_id))
    ELSE IF chain_id = None /\ is_some(calling_address)
            /\ unwrap(calling_address) # Zeros(ADDRESS_SIZE)
    THEN Sender(unwrap(calling_address))
    ELSE SaltRandom

has_uppercase(str) == \E i \in 1..Len(str) : is_uppercase(str[i])

Create3 == [kind |-> "Create3", init_code_hash |-> <<>>]

Create2(init_code_hash) == [kind |-> "Create2", init_code_hash |-> init_code_hash]

Panic(msg) == [status |-> "Panic", msg |-> msg, config |-> None]

Err(msg) == [status |-> "Err", msg |-> msg, config |-> None]

Ok(cfg) == [status |-> "Ok", msg |-> "", config |-> Some(cfg)]

\* Config::new(gpu_device, factory_address_str, calling_address_str, chain_id,
\* init_code_hash, reward, output).  Address::parse_checksummed hashes the
\* address; whether a mixed-case string carries the right checksum is given
\* with the input (factory_checksum_ok, calling_checksum_ok).
Config_new(a) ==
    LET factory_address_vec == hex_decode(a.factory_address_str)
        calling_address_vec ==
            IF is_some(a.calling_address_str)
            THEN hex_decode(unwrap(a.calling_address_str))
            ELSE [ok |-> TRUE, bytes |-> <<>>]
        init_code_hash_vec ==
            IF is_some(a.init_code_hash) THEN hex_decode(unwrap(a.init_code_hash))
            ELSE [ok |-> TRUE, bytes |-> <<>>]
        calling_address ==
            IF is_some(a.calling_address_str) THEN Some(calling_address_vec.bytes)
            ELSE None
        chain_id ==
            IF is_some(a.chain_id) THEN Some(encode_chain_id(unwrap(a.chain_id)))
            ELSE None
        create_variant ==
            IF is_some(a.init_code_hash) THEN Create2(init_code_hash_vec.bytes)
            ELSE Create3
    IN  IF ~factory_address_vec.ok
        THEN Panic("could not decode factory address argument")
        ELSE IF ~calling_address_vec.ok
        THEN Panic("could not decode calling address argument")
        ELSE IF ~init_code_hash_vec.ok
        THEN Panic("could not decode init code hash argument")
        ELSE IF Len(factory_address_vec.bytes) # ADDRESS_SIZE
        THEN Panic("invalid length for factory address argument")
        ELSE IF is_some(a.calling_address_str)
                /\ Len(calling_address_vec.bytes) # ADDRESS_SIZE
        THEN Panic("invalid length for calling address argument")
        ELSE IF is_some(a.init_code_hash) /\ Len(init_code_hash_vec.bytes) # SALT_SIZE
        THEN Panic("invalid length for init code hash argument")
        ELSE IF validate_reward(a.reward) # "Ok"
        THEN Err(validate_reward(a.reward))
        ELSE IF has_uppercase(a.factory_address_str) /\ ~a.factory_checksum_ok
        THEN Err("factory address uses invalid checksum")
        ELSE IF is_some(calling_address)
                /\ has_uppercase(unwrap(a.calling_address_str))
                /\ ~a.calling_checksum_ok
        THEN Err("caller address uses invalid checksum")
        ELSE Ok([gpu_device |-> a.gpu_device,
                 factory_address |-> factory_address_vec.bytes,
                 salt_variant |-> salt_variant_of(chain_id, calling_address),
                 create_variant |-> create_variant,
                 reward |-> a.reward,
                 output |-> a.output])

-----------------------------------------------------------------------------
(* Inputs. *)

to_uppercase(s) ==
    [i \in 1..Len(s) |->
        IF \E k \in 11..16 : s[i] = LowerHexDigits[k]
        THEN UpperHexDigits[CHOOSE k \in 11..16 : s[i] = LowerHexDigits[k]]
        ELSE s[i]]

FactoryBytes == Rep(186, ADDRESS_SIZE)

CallerBytes == Rep(170, ADDRESS_SIZE)

InitCodeHashBytes == Rep(33, SALT_SIZE)

\* Address strings: well formed (lower case, "0x"-prefixed, upper case), one byte
\* short, holding a character that is no hex digit, and of odd length.
BadStrings(bytes) ==
    { hex_encode(SubSeq(bytes, 1, Len(bytes) - 1)),
      <<"z", "z">> \o hex_encode(SubSeq(bytes, 1, Len(bytes) - 1)),
      Tail(hex_encode(bytes)) }

GoodStrings(bytes) ==
    { hex_encode(bytes), <<"0", "x">> \o hex_encode(bytes),
      to_uppercase(hex_encode(bytes)) }

CallerStrings ==
    {None} \cup {Some(str) : str \in GoodStrings(CallerBytes) \cup BadStrings(CallerBytes)}
           \cup {Some(hex_encode(Zeros(ADDRESS_SIZE))),
                 Some(hex_encode(<<1>> \o Zeros(ADDRESS_SIZE - 1)))}

ChainIds == {None, Some(1), Some(5), Some(258)}

P_bb == <<"b", "b">>

P_ab_ef == <<"a", "b">> \o Dots \o <<"e", "f">>

ConfigRewards ==
    {LeadingZeros(n) : n \in {0, 1, 20, 21, 255}}
    \cup {TotalZeros(n) : n \in {0, 1, 20, 21}}
    \cup {LeadingAndTotalZeros(x[1], x[2]) : x \in {0, 1, 20, 21} \X {0, 3, 21}}
    \cup {LeadingOrTotalZeros(x[1], x[2]) : x \in {0, 2, 21} \X {0, 20, 21}}
    \cup {Matching(p) : p \in {<<>>, P_bb, <<"a", "b", "c">>, <<"g", "g">>, P_ab_ef,
                               <<"a", "b">> \o Dots \o <<"c", "d", "e">>,
                               <<"a", "b">> \o Dots,
                               <<"a", "b", "c">> \o Dots,
                               Dots \o <<"e", "f">>,
                               <<"a", "b">> \o Dots \o Dots,
                               <<"a", "B", "c", "D">> \o Dots \o <<"E", "f">>}}

\* Bound of the model: the longest pattern of the patterns tried in full.
MaxPatternLen == 8

\* Every string of a hex digit, a character that is none and the dot, up to
\* MaxPatternLen characters, and some with upper-case digits.
PatternStrings ==
    UNION {[1..n -> {"a", "g", "."}] : n \in 0..MaxPatternLen}
    \cup {<<"a", "B">>, <<"a", "B">> \o Dots, <<"a", "B">> \o Dots \o <<"C", "d">>,
          <<"0", "1", "2", "3", "4", "5">> \o Dots \o <<"6", "7">>,
          <<"8", "9", "A", "b", "c", "D", "E", "f">> \o Dots \o <<"F", "e">>,
          <<"a", "b">> \o Dots \o <<"c", "d", "e">>}

MkArgs(command, factory, factory_ok, caller, caller_ok, chain_id, hash, reward) ==
    [command |-> command, gpu_device |-> 0,
     factory_address_str |-> factory, factory_checksum_ok |-> factory_ok,
     calling_address_str |-> caller, calling_checksum_ok |-> caller_ok,
     chain_id |-> chain_id, init_code_hash |-> hash,
     reward |-> reward, output |-> "output.txt"]

\* Direct calls of Config::new.  The checksum outcome is only an input where the
\* string has an upper-case character.
ConfigInputs ==
    { MkArgs("Config::new", f, fok, c, cok, id, h, r) :
        f \in GoodStrings(FactoryBytes) \cup BadStrings(FactoryBytes),
        fok \in BOOLEAN, c \in CallerStrings, cok \in BOOLEAN, id \in ChainIds,
        h \in {None, Some(hex_encode(InitCodeHashBytes)),
               Some(hex_encode(FactoryBytes))},
        r \in {LeadingZeros(1), LeadingZeros(0), Matching(P_ab_ef)} }
    \cup
    { MkArgs("Config::new", hex_encode(FactoryBytes), TRUE, c, TRUE, id, None, r) :
        c \in CallerStrings, id \in ChainIds, r \in ConfigRewards }
    \cup
    { MkArgs("Config::new", hex_encode(FactoryBytes), TRUE, None, TRUE, None, None,
             Matching(p)) : p \in PatternStrings }

NotCalled == [status |-> "NotCalled", msg |-> "", config |-> None]

\* The second process before it is started.
NotStarted == [pc |-> "not started", nonce |-> to_le_bytes(0, 8), total_cycles |-> 0]

HasChecksumInput(a) ==
    /\ (~has_uppercase(a.factory_address_str) => a.factory_checksum_ok)
    /\ (~(is_some(a.calling_address_str)
          /\ has_uppercase(unwrap(a.calling_address_str))) => a.calling_checksum_ok)

\* Everything of the process but the inputs, before main has done anything.
Fresh ==
    /\ config = NotCalled
    /\ RAW_PATTERN = None
    /\ PREFIX = None
    /\ SUFFIX = None
    /\ pattern_config = <<0, 0, 0>>
    /\ nonce = to_le_bytes(0, 8)
    /\ message_buffer = Zeros(SALT_SIZE)
    /\ results = <<>>
    /\ matched = <<>>
    /\ found = 0
    /\ total_cycles = 0
    /\ found_list = <<>>
    /\ stderr = <<>>
    /\ faults = 0
    /\ map_result = None
    /\ covered = <<>>
    /\ interrupted = FALSE
    /\ other = NotStarted

InitConfig ==
    /\ pc = "Config::new"
    /\ args \in {a \in ConfigInputs : HasChecksumInput(a)}
    /\ file = <<>>
    /\ Fresh

\* A caller of the library calls Config::new(args): it returns Ok or Err, or panics.
ConfigNew ==
    /\ pc = "Config::new"
    /\ config' = Config_new(args)
    /\ pc' = IF config'.status = "Panic" THEN "panic" ELSE "returned"
    /\ UNCHANGED <<args, RAW_PATTERN, PREFIX, SUFFIX, pattern_config, nonce,
                   message_buffer, results, matched, file, found, total_cycles,
                   found_list, stderr, faults, map_result, covered, interrupted,
                   other>>

NextConfig == ConfigNew

SpecConfig == InitConfig /\ [][NextConfig]_vars

-----------------------------------------------------------------------------
(* main (main.rs) and the set-up of gpu() (webgpu.rs 30-327). *)

\* Bounds of the model.
WorkSize == 2

MaxBatches == 2

MaxFaults == 1

\* SystemTime::now() as seconds since the epoch.
StartTimes == {1700000000}

OldLine == [type |-> "finding", salt |-> Rep(255, SALT_SIZE),
            address |-> Rep(238, ADDRESS_SIZE)]

Comment(text, arg) == [type |-> "comment", text |-> text, arg |-> arg]

BlankLine == [type |-> "blank"]

\* The four writeln! of the header, in order.
Header(cfg, now) ==
    << IF cfg.reward.kind = "Matching"
       THEN Comment("# Mining for addresses matching pattern {}", cfg.reward.pattern)
       ELSE Comment("# Mining for addresses matching pattern", <<>>),
       Comment("# Format: salt -> ethereum_address", <<>>),
       Comment("# Started: {}", <<now>>),
       BlankLine >>

\* if let RewardVariant::Matching { pattern } = &config.reward { RAW_PATTERN = Some(..) }
StoreRawPattern(cfg, raw) ==
    IF cfg.reward.kind = "Matching" THEN Some(cfg.reward.pattern) ELSE raw

Error(e) == <<"Error: {}", e>>

\* Main that empties the output file when Config::new returns an error.
Main_clearing_output ==
    /\ pc = "main"
    /\ LET r == Config_new([args EXCEPT !.init_code_hash = None])
           hash == hex_decode(unwrap(args.init_code_hash))
       IN  IF r.status = "Panic"
           THEN pc' = "panic" /\ config' = r /\ UNCHANGED <<stderr, file>>
           ELSE IF r.status = "Err"
           THEN /\ pc' = "exit1" /\ config' = r /\ stderr' = Append(stderr, Error(r.msg))
                /\ file' = <<>>
           ELSE IF args.command = "create3"
           THEN pc' = "gpu" /\ config' = r /\ UNCHANGED <<stderr, file>>
           ELSE IF ~hash.ok \/ Len(hash.bytes) # SALT_SIZE
           THEN pc' = "panic" /\ config' = r /\ UNCHANGED <<stderr, file>>
           ELSE /\ pc' = "gpu"
                /\ config' = Ok([unwrap(r.config) EXCEPT
                                    !.create_variant = Create2(hash.bytes)])
                /\ UNCHANGED <<stderr, file>>
    /\ UNCHANGED <<args, RAW_PATTERN, PREFIX, SUFFIX, pattern_config, nonce,
                   message_buffer, results, matched, found, total_cycles,
                   found_list, faults, map_result, covered, interrupted, other>>

\* main, up to the call of webgpu::gpu: factory_init_config (Config::new without
\* an init-code hash) and, for create2, the decoding of the init-code hash.
Main ==
    /\ pc = "main"
    /\ LET r == Config_new([args EXCEPT !.init_code_hash = None])
           hash == hex_decode(unwrap(args.init_code_hash))
       IN  IF r.status = "Panic"
           THEN pc' = "panic" /\ config' = r /\ UNCHANGED stderr
           ELSE IF r.status = "Err"
           THEN pc' = "exit1" /\ config' = r /\ stderr' = Append(stderr, Error(r.msg))
           ELSE IF args.command = "create3"
           THEN pc' = "gpu" /\ config' = r /\ UNCHANGED stderr
           ELSE IF ~hash.ok \/ Len(hash.bytes) # SALT_SIZE
           THEN pc' = "panic" /\ config' = r /\ UNCHANGED stderr
           ELSE /\ pc' = "gpu"
                /\ config' = Ok([unwrap(r.config) EXCEPT
                                    !.create_variant = Create2(hash.bytes)])
                /\ UNCHANGED stderr
    /\ UNCHANGED <<args, RAW_PATTERN, PREFIX, SUFFIX, pattern_config, nonce,
                   message_buffer, results, matched, file, found, total_cycles,
                   found_list, faults, map_result, covered, interrupted, other>>

\* gpu() from its entry to the start of the loop.  The environment lets it
\* through, or File::create fails, or the k-th writeln! of the header fails, or
\* there is no adapter, or no device.
GpuSetup ==
    /\ pc = "gpu"
    /\ \E outcome \in [kind : {"ok", "create failed", "write failed", "no adapter",
                               "no device"}, k : 0..4], now \in StartTimes :
        /\ outcome.kind = "write failed" <=> outcome.k > 0
        /\ outcome.kind # "ok" => faults < MaxFaults
        /\ faults' = IF outcome.kind = "ok" THEN faults ELSE faults + 1
        /\ RAW_PATTERN' = StoreRawPattern(unwrap(config.config), RAW_PATTERN)
        /\ file' = CASE outcome.kind = "create failed" -> file
                     [] outcome.kind = "write failed" ->
                            SubSeq(Header(unwrap(config.config), now), 1,
                                   outcome.k - 1)
                     [] OTHER -> Header(unwrap(config.config), now)
        /\ IF outcome.kind = "ok"
           THEN /\ pattern_config' = RewardPatternConfig(unwrap(config.config).reward)
                /\ nonce' = to_le_bytes(0, 8)
                /\ pc' = "running"
                /\ UNCHANGED stderr
           ELSE /\ stderr' = Append(stderr, Error(outcome.kind))
                /\ pc' = "exit1"
                /\ UNCHANGED <<pattern_config, nonce>>
    /\ UNCHANGED <<args, config, PREFIX, SUFFIX, message_buffer, results, matched,
                   found, total_cycles, found_list, map_result, covered,
                   interrupted, other>>

-----------------------------------------------------------------------------
(* The search loop of gpu() (webgpu.rs 329-501). *)

\* Addresses the hash oracle may return in a run: one of the form the kind of
\* reward looks for (all zero, or 0xAB00..00EF) and one of no such form.
RunAddresses(reward) ==
    { IF reward.kind = "Matching"
      THEN <<171>> \o Zeros(ADDRESS_SIZE - 2) \o <<239>>
      ELSE Zeros(ADDRESS_SIZE),
      Rep(18, ADDRESS_SIZE - 1) \o <<52>> }

\* let work_size: u32 = 1_000_000: the counters of one batch.  Of the results of
\* a batch the model looks at the first WorkSize.
work_size == 1000000

\* let should_exit = false
should_exit == FALSE

\* queue.write_buffer(&message_buffer, 0, cast_slice(&[nonce as u32])): the first
\* four bytes are the low 32 bits of nonce, the rest stays as it was.
write_nonce(buffer, n) == as_u32(n) \o SubSeq(buffer, 5, Len(buffer))

\* What the host has written into the buffers the shader reads: the message
\* buffer (binding 0), num_messages (1), message_sizes (2) and the pattern
\* configuration (5).
bind_group_inputs(buffer, pattern) ==
    buffer \o to_le_bytes(work_size, 4) \o to_le_bytes(8, 4) \o to_le_bytes(8, 4)
    \o to_le_bytes(pattern[1], 4) \o to_le_bytes(pattern[2], 4)
    \o to_le_bytes(pattern[3], 4) \o to_le_bytes(0, 4)

\* The hash oracle (the compute shader): lane i answers with the counter it
\* hashed, the base counter in the message buffer plus i, split low/high, and a
\* derived address.
OracleResults(buffer, addresses) ==
    [i \in 1..Len(addresses) |->
        [nonce_low |-> add_le(SubSeq(buffer, 1, 4), i - 1),
         nonce_high |-> to_le_bytes(0, 4),
         address |-> addresses[i]]]

\* The counters [first, next) the oracle has been handed once a batch with the
\* given base is dispatched; the range of a batch that starts where the last
\* range ends is joined to it.
Cover(cov, base) ==
    LET first == as_u64(base)
        next == add_le(first, work_size)
    IN  IF cov # <<>> /\ cov[Len(cov)].next = first
        THEN [cov EXCEPT ![Len(cov)].next = next]
        ELSE Append(cov, [first |-> first, next |-> next])

\* for i in 0..work_size: matches_pattern of every result in turn, and the
\* statics after the last call.
RECURSIVE evaluate_results(_, _, _, _, _)
evaluate_results(rs, pattern, raw, prefix, suffix) ==
    IF rs = <<>> THEN [matched |-> <<>>, PREFIX |-> prefix, SUFFIX |-> suffix]
    ELSE LET r == check_eth_address_pattern(Head(rs).address, as_u8(pattern[1]),
                                            pattern[2], pattern[3], raw, prefix, suffix)
             rest == evaluate_results(Tail(rs), pattern, raw, r.PREFIX, r.SUFFIX)
         IN  [matched |-> <<r.result>> \o rest.matched,
              PREFIX |-> rest.PREFIX, SUFFIX |-> rest.SUFFIX]

\* let mut salt_bytes = [0u8; 32]; [0..4] = nonce_low LE; [4..8] = nonce_high LE
\* (nonce_low and nonce_high are held as their little-endian bytes).
salt_bytes_of(nonce_low, nonce_high) ==
    nonce_low \o nonce_high \o Zeros(SALT_SIZE - 8)

\* "{salt_hex} -> {checksummed_address}"; the line is kept as the bytes its two
\* hex strings spell.
FindingLine(r) ==
    [type |-> "finding", salt |-> salt_bytes_of(r.nonce_low, r.nonce_high),
     address |-> r.address]

\* matches_of that pushes every result, matching or not.
matches_of_all(rs, flags) == rs

\* matches.push(..) for the results that match, in result order.
RECURSIVE matches_of(_, _)
matches_of(rs, flags) ==
    IF rs = <<>> THEN <<>>
    ELSE (IF Head(flags) THEN <<Head(rs)>> ELSE <<>>) \o matches_of(Tail(rs), Tail(flags))

\* The lines the writeln! calls append for the matches, the ones whose index is
\* in failing left out.
RECURSIVE written_lines(_, _, _)
written_lines(matches, failing, j) ==
    IF j > Len(matches) THEN <<>>
    ELSE (IF j \in failing THEN <<>> ELSE <<FindingLine(matches[j])>>)
         \o written_lines(matches, failing, j + 1)

write_errors(matches, failing) ==
    [k \in 1..Cardinality(failing) |-> <<"Error writing to output file: {}", "e">>]

\* One pass of the loop for the given answer of the environment: dispatch, read
\* back, evaluate, persist, advance, look at should_exit.
LoopPass(addresses, map_ok, open_ok, failing) ==
    LET buffer == write_nonce(message_buffer, nonce)
        rs == OracleResults(buffer, addresses)
        ev == evaluate_results(rs, pattern_config, RAW_PATTERN, PREFIX, SUFFIX)
        matches == matches_of(rs, ev.matched)
        nfaults == (IF map_ok THEN 0 ELSE 1) + (IF open_ok THEN 0 ELSE 1)
                   + Cardinality(failing)
    IN  /\ faults + nfaults <= MaxFaults
        /\ ~map_ok => open_ok /\ failing = {}
        /\ (map_ok /\ matches = <<>>) => open_ok /\ failing = {}
        /\ ~open_ok => failing = {}
        /\ failing \subseteq 1..Len(matches)
        /\ faults' = faults + nfaults
        /\ message_buffer' = buffer
        /\ covered' = Cover(covered, SubSeq(buffer, 1, 4))
        /\ map_result' = IF map_ok THEN Some("Ok") ELSE Some("Err")
        /\ IF ~map_ok
           THEN /\ nonce' = add_le(nonce, work_size)
                /\ total_cycles' = total_cycles + 1
                /\ pc' = IF should_exit THEN "stopped" ELSE pc
                /\ UNCHANGED <<results, matched, PREFIX, SUFFIX, found, file,
                               found_list, stderr>>
           ELSE /\ results' = rs
                /\ matched' = ev.matched
                /\ PREFIX' = ev.PREFIX
                /\ SUFFIX' = ev.SUFFIX
                /\ found' = found + Len(matches)
                /\ IF ~open_ok
                   THEN /\ pc' = "panic"
                        /\ UNCHANGED <<file, found_list, stderr, nonce, total_cycles>>
                   ELSE /\ file' = file \o written_lines(matches, failing, 1)
                        /\ found_list' = found_list \o written_lines(matches, {}, 1)
                        /\ stderr' = stderr \o write_errors(matches, failing)
                        /\ nonce' = add_le(nonce, work_size)
                        /\ total_cycles' = total_cycles + 1
                        /\ pc' = IF should_exit THEN "stopped" ELSE pc
        /\ UNCHANGED <<args, config, RAW_PATTERN, pattern_config, interrupted, other>>

\* A pass of the loop, whatever the oracle and the file system answer.
Batch ==
    /\ pc = "running"
    /\ total_cycles < MaxBatches
    /\ \E addresses \in [1..WorkSize -> RunAddresses(unwrap(config.config).reward)],
          map_ok \in BOOLEAN, open_ok \in BOOLEAN, failing \in SUBSET (1..WorkSize) :
        LoopPass(addresses, map_ok, open_ok, failing)

\* The user presses Ctrl+C, as "Press Ctrl+C to exit" invites.  No handler is
\* installed and should_exit is an immutable local: the signal ends the process
\* where it stands.
Interrupt ==
    /\ pc = "running"
    /\ ~interrupted
    /\ interrupted' = TRUE
    /\ pc' = "killed"
    /\ UNCHANGED <<args, config, RAW_PATTERN, PREFIX, SUFFIX, pattern_config, nonce,
                   message_buffer, results, matched, file, found, total_cycles,
                   found_list, stderr, faults, map_result, covered, other>>

\* The command lines of the runs: create3, or create2 with an init-code hash.
RunRewards ==
    { LeadingZeros(20), LeadingZeros(1), LeadingZeros(0), TotalZeros(21),
      Matching(P_ab_ef), Matching(<<"a", "b", "c">>) }

RunInputs ==
    { MkArgs("create3", hex_encode(FactoryBytes), TRUE, c, TRUE, id, None,
             LeadingZeros(20)) :
        c \in {None, Some(hex_encode(Zeros(ADDRESS_SIZE))),
               Some(hex_encode(CallerBytes))},
        id \in {None, Some(5)} }
    \cup
    { MkArgs(cmd[1], hex_encode(FactoryBytes), TRUE, None, TRUE, None, cmd[2], r) :
        cmd \in { <<"create3", None>>,
                  <<"create2", Some(hex_encode(InitCodeHashBytes))>>,
                  <<"create2", Some(hex_encode(FactoryBytes))>> },
        r \in RunRewards }
    \cup
    { MkArgs("create3", f, FALSE, None, TRUE, None, None, LeadingZeros(20)) :
        f \in {to_uppercase(hex_encode(FactoryBytes)),
               hex_encode(SubSeq(FactoryBytes, 1, ADDRESS_SIZE - 1))} }

\* The process starts; the output file is absent or holds an earlier run's line.
Init ==
    /\ pc = "main"
    /\ args \in RunInputs
    /\ file \in {<<>>, <<OldLine>>}
    /\ Fresh

Next == Main \/ GpuSetup \/ Batch \/ Interrupt

Spec == Init /\ [][Next]_vars

-----------------------------------------------------------------------------
(* Two processes started on the same output path.  gpu() opens the output     *)
(* with File::create and OpenOptions::open; output_file (lib.rs 234-247), the *)
(* one place that takes a lock, is called by neither main nor gpu().          *)

\* The second process, started with the command line of the first: its gpu() up
\* to the loop, the environment letting it through.
OtherSetup ==
    /\ other.pc = "not started"
    /\ pc \in {"gpu", "running"}
    /\ \E now \in StartTimes : file' = Header(unwrap(config.config), now)
    /\ other' = [other EXCEPT !.pc = "running"]
    /\ UNCHANGED <<pc, args, config, RAW_PATTERN, PREFIX, SUFFIX, pattern_config,
                   nonce, message_buffer, results, matched, found, total_cycles,
                   found_list, stderr, faults, map_result, covered, interrupted>>

\* A pass of the loop of the second process, its oracle and its writes answering.
OtherBatch ==
    /\ other.pc = "running"
    /\ other.total_cycles < MaxBatches
    /\ \E addresses \in [1..WorkSize -> RunAddresses(unwrap(config.config).reward)] :
        LET cfg == unwrap(config.config)
            rs == OracleResults(write_nonce(Zeros(SALT_SIZE), other.nonce), addresses)
            ev == evaluate_results(rs, RewardPatternConfig(cfg.reward),
                                   StoreRawPattern(cfg, None), None, None)
        IN  file' = file \o written_lines(matches_of(rs, ev.matched), {}, 1)
    /\ other' = [other EXCEPT !.nonce = add_le(@, work_size), !.total_cycles = @ + 1]
    /\ UNCHANGED <<pc, args, config, RAW_PATTERN, PREFIX, SUFFIX, pattern_config,
                   nonce, message_buffer, results, matched, found, total_cycles,
                   found_list, stderr, faults, map_result, covered, interrupted>>

TwoRunInputs ==
    { MkArgs("create3", hex_encode(FactoryBytes), TRUE, None, TRUE, None, None, r) :
        r \in {LeadingZeros(MAX_THRESHOLD), Matching(P_ab_ef)} }

InitTwoRuns ==
    /\ pc = "main"
    /\ args \in TwoRunInputs
    /\ file \in {<<>>, <<OldLine>>}
    /\ Fresh

NextTwoRuns == Main \/ GpuSetup \/ Batch \/ OtherSetup \/ OtherBatch

SpecTwoRuns == InitTwoRuns /\ [][NextTwoRuns]_vars

-----------------------------------------------------------------------------
(* The loop over many passes: the counter and what the oracle is handed       *)
(* (webgpu.rs 324-331, 459-461).                                              *)

\* Bound of the model: the passes of the loop that are followed.
MaxCycles == 4300

CounterInputs ==
    { MkArgs("create3", hex_encode(FactoryBytes), TRUE, None, TRUE, None, None,
             LeadingZeros(MAX_THRESHOLD)) }

\* The state in which gpu() enters its loop.
InitCounter ==
    /\ pc = "running"
    /\ args \in CounterInputs
    /\ config = Config_new(args)
    /\ RAW_PATTERN = StoreRawPattern(unwrap(config.config), None)
    /\ PREFIX = None
    /\ SUFFIX = None
    /\ pattern_config = RewardPatternConfig(unwrap(config.config).reward)
    /\ nonce = to_le_bytes(0, 8)
    /\ message_buffer = Zeros(SALT_SIZE)
    /\ results = <<>>
    /\ matched = <<>>
    /\ map_result = None
    /\ covered = <<>>
    /\ interrupted = FALSE
    /\ other = NotStarted
    /\ file \in {Header(unwrap(config.config), now) : now \in StartTimes}
    /\ found = 0
    /\ total_cycles = 0
    /\ found_list = <<>>
    /\ stderr = <<>>
    /\ faults = 0

\* A pass of the loop in which the oracle answers and no address matches.
Cycle ==
    /\ pc = "running"
    /\ total_cycles < MaxCycles
    /\ LoopPass([i \in 1..WorkSize |-> Rep(18, ADDRESS_SIZE - 1) \o <<52>>],
                TRUE, TRUE, {})

NextCounter == Cycle

SpecCounter == InitCounter /\ [][NextCounter]_vars

-----------------------------------------------------------------------------
(* The evaluator on its own: the loop entered with a valid Config, and the     *)
(* evaluation of one returned address after another (webgpu.rs 400-410).       *)

\* Addresses with a run of k leading zero bytes and one more zero byte further
\* on, with a single nonzero byte, and with every other byte zero.
ZeroAddresses ==
    { [i \in 1..ADDRESS_SIZE |->
          IF i <= x[1] \/ i = (IF x[2] = 2 THEN x[1] + 2 ELSE x[2]) THEN 0 ELSE 17] :
        x \in (0..ADDRESS_SIZE) \X {0, 2} }
    \cup { [i \in 1..ADDRESS_SIZE |-> IF i = h THEN 17 ELSE 0] : h \in 1..ADDRESS_SIZE }
    \cup { [i \in 1..ADDRESS_SIZE |-> IF i % 2 = 0 THEN 0 ELSE 17] }

\* Addresses with k leading bytes a, a last byte c and the bytes m between.
PatternAddresses ==
    { [i \in 1..ADDRESS_SIZE |->
          IF i <= x[2] THEN x[1] ELSE IF i = ADDRESS_SIZE THEN x[4] ELSE x[3]] :
        x \in {171, 187} \X {1, 2, 3, 20} \X {0, 17} \X {239, 17} }
    \cup { <<171, 205>> \o Rep(x[1], ADDRESS_SIZE - 3) \o <<x[2]>> :
            x \in {0, 171} \X {239, 238} }
    \cup { <<171, 171, 205>> \o Zeros(ADDRESS_SIZE - 3),
           <<171, 205, 171, 205>> \o Zeros(ADDRESS_SIZE - 5) \o <<239>>,
           Rep(18, ADDRESS_SIZE - 1) \o <<52>> }

EvalAddresses == ZeroAddresses \cup PatternAddresses

RECURSIVE Times(_, _)
Times(str, n) == IF n = 0 THEN <<>> ELSE str \o Times(str, n - 1)

SimplePatterns ==
    { P_bb, <<"a", "b">>, <<"A", "B">>, <<"b", "B">>, <<"0", "0">>, <<"1", "1">> }

Prefixes ==
    { Times(P_bb, k) : k \in {1, 2, 3, 19, 20, 21} }
    \cup { <<"a", "b">>, <<"A", "B">>, <<"0", "0">>, <<"b", "B", "b", "b">>,
           <<"a", "b", "c", "d">>, <<"a", "b", "a", "b">>, <<"A", "b", "C", "d">>,
           <<"a", "b", "a", "b", "c", "d">>, <<"a", "b", "c", "d", "a", "b", "c", "d">>,
           Times(<<"a", "b">>, 20), Times(<<"a", "b">>, 21) }

PrefixesWithSuffix ==
    { <<"a", "b">>, <<"A", "B">>, <<"b", "b", "b", "b">>, <<"a", "b", "c", "d">>,
      <<"A", "b", "C", "d">>, <<"a", "b", "a", "b">>, Times(P_bb, 3),
      Times(<<"a", "b">>, 20) }

Suffixes == { <<"e", "f">>, <<"E", "f">>, <<"1", "1">> }

Thresholds == 1..MAX_THRESHOLD

PairThresholds == {1, 2, 20}

EvalRewards ==
    {LeadingZeros(n) : n \in Thresholds}
    \cup {TotalZeros(n) : n \in Thresholds}
    \cup {LeadingAndTotalZeros(x[1], x[2]) : x \in PairThresholds \X PairThresholds}
    \cup {LeadingOrTotalZeros(x[1], x[2]) : x \in PairThresholds \X PairThresholds}
    \cup {Matching(p) : p \in SimplePatterns}
    \cup {Matching(p \o Dots) : p \in Prefixes}
    \cup {Matching(x[1] \o Dots \o x[2]) : x \in PrefixesWithSuffix \X Suffixes}

EvalInputs ==
    { MkArgs("create3", hex_encode(FactoryBytes), TRUE, None, TRUE, None, None, r) :
        r \in EvalRewards }

\* The state in which gpu() enters its loop, for a Config that Config::new built.
InitEval ==
    /\ pc = "running"
    /\ args \in EvalInputs
    /\ config = Config_new(args)
    /\ config.status = "Ok"
    /\ RAW_PATTERN = StoreRawPattern(unwrap(config.config), None)
    /\ PREFIX = None
    /\ SUFFIX = None
    /\ pattern_config = RewardPatternConfig(unwrap(config.config).reward)
    /\ nonce = to_le_bytes(0, 8)
    /\ message_buffer = Zeros(SALT_SIZE)
    /\ results = <<>>
    /\ matched = <<>>
    /\ map_result = None
    /\ covered = <<>>
    /\ interrupted = FALSE
    /\ other = NotStarted
    /\ file \in {Header(unwrap(config.config), now) : now \in StartTimes}
    /\ found = 0
    /\ total_cycles = 0
    /\ found_list = <<>>
    /\ stderr = <<>>
    /\ faults = 0

\* The body of `for i in 0..work_size` for one result: the address of the result
\* goes through check_eth_address_pattern.
Evaluate ==
    /\ pc = "running"
    /\ \E address \in EvalAddresses :
        LET rs == OracleResults(message_buffer, <<address>>)
            ev == evaluate_results(rs, pattern_config, RAW_PATTERN, PREFIX, SUFFIX)
        IN  /\ results' = rs
            /\ matched' = ev.matched
            /\ PREFIX' = ev.PREFIX
            /\ SUFFIX' = ev.SUFFIX
    /\ UNCHANGED <<pc, args, config, RAW_PATTERN, pattern_config, nonce,
                   message_buffer, file, found, total_cycles, found_list, stderr,
                   faults, map_result, covered, interrupted, other>>

NextEval == Evaluate

SpecEval == InitEval /\ [][NextEval]_vars

-----------------------------------------------------------------------------
(* Claims about Config::new, checked under SpecConfig. *)

RECURSIVE BeValue(_)
BeValue(bytes) ==
    IF bytes = <<>> THEN 0
    ELSE 256 * BeValue(SubSeq(bytes, 1, Len(bytes) - 1)) + bytes[Len(bytes)]

Returned == pc = "returned" /\ config.status = "Ok"

CallerGiven == is_some(args.calling_address_str)

CallerDecoded == hex_decode(unwrap(args.calling_address_str)).bytes

\* The chain id carried by the derived variant is the 32-byte big-endian
\* encoding of the chain id given.
CarriesChainId(sv) ==
    /\ Len(sv.chain_id) = SALT_SIZE
    /\ BeValue(sv.chain_id) = unwrap(args.chain_id)

\* The SaltVariant the precedence rule gives when the calling address counts as
\* supplied (supplied = TRUE) or as unset.
ByPrecedence(sv, supplied) ==
    IF is_some(args.chain_id) /\ supplied
    THEN sv.kind = "CrosschainSender" /\ CarriesChainId(sv)
         /\ sv.calling_address = CallerDecoded
    ELSE IF is_some(args.chain_id)
    THEN sv.kind = "Crosschain" /\ CarriesChainId(sv) /\ sv.calling_address = <<>>
    ELSE IF supplied
    THEN sv.kind = "Sender" /\ sv.chain_id = <<>>
         /\ sv.calling_address = CallerDecoded
    ELSE sv.kind = "Random" /\ sv.chain_id = <<>> /\ sv.calling_address = <<>>

\* C8: an all-zero calling address is treated as unset: Config::new derives from
\* it the SaltVariant it derives from no calling address, so with a chain id the
\* result is Crosschain carrying that chain id, and without one Random.
C8_ZeroCallerIsUnset ==
    (Returned /\ CallerGiven /\ CallerDecoded = Zeros(ADDRESS_SIZE))
        => ByPrecedence(unwrap(config.config).salt_variant, FALSE)

\* C9: with the calling address absent or nonzero, the SaltVariant follows the
\* precedence: chain id and calling address give CrosschainSender carrying both,
\* chain id alone Crosschain, calling address alone Sender, neither Random.
C9_SaltVariantPrecedence ==
    (Returned /\ (CallerGiven => CallerDecoded # Zeros(ADDRESS_SIZE)))
        => ByPrecedence(unwrap(config.config).salt_variant, CallerGiven)

C9_Witness ==
    /\ Returned
    /\ CallerGiven
    /\ CallerDecoded = CallerBytes
    /\ args.chain_id = Some(258)
    /\ unwrap(config.config).salt_variant.kind = "CrosschainSender"

\* The string is not valid hex or does not decode to exactly n bytes.
Malformed(str, n) == ~hex_decode(str).ok \/ Len(hex_decode(str).bytes) # n

MalformedInput ==
    \/ Malformed(args.factory_address_str, ADDRESS_SIZE)
    \/ is_some(args.calling_address_str)
        /\ Malformed(unwrap(args.calling_address_str), ADDRESS_SIZE)
    \/ is_some(args.init_code_hash) /\ Malformed(unwrap(args.init_code_hash), SALT_SIZE)

\* C17: for a factory address, calling address or init-code hash that is not
\* valid hex or not of 20, 20 and 32 bytes, Config::new returns an error value
\* naming the rule: it does not abort and yields no Config.
C17_MalformedHexIsAnError ==
    (pc # "Config::new" /\ MalformedInput) =>
        (pc = "returned" /\ config.status = "Err" /\ config.msg # "")

\* The thresholds a zero-count reward carries.
ThresholdsOf(reward) ==
    IF reward.kind \in {"LeadingZeros", "TotalZeros"} THEN {reward.zeros_threshold}
    ELSE {reward.leading_zeros_threshold, reward.total_zeros_threshold}

ThresholdErrors ==
    {"threshold must be greater than 0", "threshold must be less than 20"}

RejectedForThreshold == config.status = "Err" /\ config.msg \in ThresholdErrors

\* C18: Config::new, when it returns, has turned a zero-count reward away with
\* a threshold error iff one of the thresholds it carries is 0 or above 20; with
\* every threshold in 1..20 and the checksums in order it returns a Config.
C18_ThresholdsInRange ==
    (pc = "returned" /\ args.reward.kind # "Matching") =>
        /\ RejectedForThreshold <=> (\E t \in ThresholdsOf(args.reward) : t \notin 1..20)
        /\ (~RejectedForThreshold /\ args.factory_checksum_ok
            /\ args.calling_checksum_ok) => config.status = "Ok"

C18_Witness ==
    /\ pc = "returned"
    /\ args.reward = LeadingOrTotalZeros(2, 21)
    /\ config = Err("threshold must be less than 20")

HexChars ==
    {"0", "1", "2", "3", "4", "5", "6", "7", "8", "9",
     "a", "b", "c", "d", "e", "f", "A", "B", "C", "D", "E", "F"}

IsHex(str) == \A i \in 1..Len(str) : str[i] \in HexChars

\* Exactly 2 hex characters, or prefix "..." suffix with a non-empty prefix of
\* an even number of hex characters and a suffix that is empty or 2 hex
\* characters (so that the string holds one separator).
WellFormedPattern(p) ==
    \/ Len(p) = 2 /\ IsHex(p)
    \/ \E n \in 1..Len(p) :
          /\ n % 2 = 0
          /\ IsHex(SubSeq(p, 1, n))
          /\ n + 3 <= Len(p)
          /\ \A k \in 1..3 : p[n + k] = "."
          /\ Len(p) - (n + 3) \in {0, 2}
          /\ IsHex(SubSeq(p, n + 4, Len(p)))

PatternErrors ==
    {"pattern cannot be empty", "pattern must have exactly one '...' separator",
     "leading part of pattern cannot be empty",
     "leading part must have even number of characters",
     "leading part must contain only hex characters",
     "trailing part must be exactly 2 characters",
     "trailing part must contain only hex characters",
     "simple pattern must be exactly 2 characters",
     "pattern must contain only hex characters"}

RejectedForPattern == config.status = "Err" /\ config.msg \in PatternErrors

\* C19: Config::new, when it returns, has turned a Matching pattern away with a
\* pattern error iff the pattern is not well formed (2 hex characters, or an
\* even-length hex prefix, "...", and no suffix or one of 2 hex characters); a
\* well-formed pattern with the checksums in order gives a Config.
C19_PatternSyntax ==
    (pc = "returned" /\ args.reward.kind = "Matching") =>
        /\ RejectedForPattern <=> ~WellFormedPattern(args.reward.pattern)
        /\ (~RejectedForPattern /\ args.factory_checksum_ok
            /\ args.calling_checksum_ok) => config.status = "Ok"

C19_Witness ==
    /\ pc = "returned"
    /\ args.reward = Matching(<<"a", "b">> \o Dots \o <<"c", "d", "e">>)
    /\ config = Err("trailing part must be exactly 2 characters")

-----------------------------------------------------------------------------
(* Claims about the evaluator, checked under SpecEval. *)

Reward == unwrap(config.config).reward

\* The number of zero bytes of an address.
CountZeros(address) == Cardinality({i \in 1..Len(address) : address[i] = 0})

\* The first n bytes of an address are zero.
LeadingZero(address, n) == \A i \in 1..n : i <= Len(address) /\ address[i] = 0

\* Every byte of prefix equals the corresponding leading byte of the address.
PrefixMatches(address, prefix) ==
    \A i \in 1..Len(prefix) : i <= Len(address) /\ address[i] = prefix[i]

PatternParts == split_dots(Reward.pattern)

PrefixOf == hex_decode(PatternParts[1]).bytes

SuffixOf == hex_decode(PatternParts[2]).bytes

\* Every result evaluated so far got the verdict want(address).
Verdicts(want(_)) ==
    \A i \in DOMAIN results : matched[i] <=> want(results[i].address)

\* C1: for TotalZeros(n) the evaluator answers true iff at least n of the 20
\* bytes of the address are zero, wherever they are.
C1_TotalZeros ==
    Reward.kind = "TotalZeros" =>
        LET want(a) == CountZeros(a) >= Reward.zeros_threshold IN Verdicts(want)

\* C2: for Matching("xy") the evaluator answers true iff byte 0 of the address
\* is the byte xy.
C2_SimplePattern ==
    (Reward.kind = "Matching" /\ ~contains_dots(Reward.pattern)) =>
        LET want(a) == a[1] = hex_decode(Reward.pattern).bytes[1] IN Verdicts(want)

\* C3: for LeadingAndTotalZeros(L, T) the evaluator answers true iff the first L
\* bytes are zero and at least T of the 20 bytes are zero.
C3_LeadingAndTotalZeros ==
    Reward.kind = "LeadingAndTotalZeros" =>
        LET want(a) == /\ LeadingZero(a, Reward.leading_zeros_threshold)
                       /\ CountZeros(a) >= Reward.total_zeros_threshold
        IN  Verdicts(want)

\* C4: for LeadingOrTotalZeros(L, T) the evaluator answers true iff the first L
\* bytes are zero or at least T of the 20 bytes are zero.
C4_LeadingOrTotalZeros ==
    Reward.kind = "LeadingOrTotalZeros" =>
        LET want(a) == \/ LeadingZero(a, Reward.leading_zeros_threshold)
                       \/ CountZeros(a) >= Reward.total_zeros_threshold
        IN  Verdicts(want)

\* C5: for LeadingZeros(n) the evaluator answers true iff the first n bytes of
\* the address are zero; so the all-zero address matches for every n, and
\* LeadingZeros(1) rejects an address whose first byte is nonzero.
C5_LeadingZeros ==
    Reward.kind = "LeadingZeros" =>
        LET want(a) == LeadingZero(a, Reward.zeros_threshold) IN Verdicts(want)

C5_Witness ==
    /\ Reward = LeadingZeros(3)
    /\ results # <<>>
    /\ results[1].address = Zeros(3) \o Rep(17, ADDRESS_SIZE - 3)
    /\ matched = <<TRUE>>

\* C6: for a pattern "<prefix>..." without a suffix the evaluator answers true
\* iff every byte of the prefix equals the corresponding leading byte of the
\* address.
C6_PrefixPattern ==
    (Reward.kind = "Matching" /\ contains_dots(Reward.pattern)
     /\ PatternParts[2] = <<>>) =>
        LET want(a) == PrefixMatches(a, PrefixOf) IN Verdicts(want)

\* C7: for a pattern "<prefix>...<suffix>" the evaluator answers true iff every
\* byte of the prefix equals the corresponding leading byte of the address and
\* the last byte of the address is the suffix byte.
C7_PrefixSuffixPattern ==
    (Reward.kind = "Matching" /\ contains_dots(Reward.pattern)
     /\ PatternParts[2] # <<>>) =>
        LET want(a) == PrefixMatches(a, PrefixOf) /\ a[Len(a)] = SuffixOf[1]
        IN  Verdicts(want)

C7_Witness ==
    /\ Reward = Matching(<<"A", "b", "C", "d">> \o Dots \o <<"E", "f">>)
    /\ results # <<>>
    /\ results[1].address = <<171, 205>> \o Zeros(ADDRESS_SIZE - 3) \o <<239>>
    /\ matched = <<TRUE>>

\* The answer check_eth_address_pattern gives for an address when it is called
\* with the statics as they stand now.
AnswerNow(a) ==
    check_eth_address_pattern(a, as_u8(pattern_config[1]), pattern_config[2],
                              pattern_config[3], RAW_PATTERN, PREFIX, SUFFIX).result

\* The answer of the first call of a run with the given reward: the pattern
\* triple and RAW_PATTERN as gpu() derives them from the reward, PREFIX and
\* SUFFIX not yet initialised.
FirstAnswer(reward, a) ==
    LET pattern == RewardPatternConfig(reward)
        raw == IF reward.kind = "Matching" THEN Some(reward.pattern) ELSE None
    IN  check_eth_address_pattern(a, as_u8(pattern[1]), pattern[2], pattern[3],
                                  raw, None, None).result

\* C21: the evaluator is pure.  Whatever addresses have been evaluated so far,
\* the answer for every address is the one a first evaluation gives, which is
\* a function of the reward and the address alone; the answers recorded for
\* the addresses just evaluated are those answers.
C21_EvaluatorIsPure ==
    /\ \A a \in EvalAddresses : AnswerNow(a) = FirstAnswer(Reward, a)
    /\ \A i \in DOMAIN results :
          matched[i] = FirstAnswer(Reward, results[i].address)

\* The cached parts are in place, left by earlier evaluations, and an address
\* with the prefix but another last byte has just been turned down.
C21_Witness ==
    /\ Reward = Matching(<<"A", "b", "C", "d">> \o Dots \o <<"E", "f">>)
    /\ PREFIX = Some(<<"a", "b", "c", "d">>)
    /\ SUFFIX = Some(<<"e", "f">>)
    /\ results # <<>>
    /\ results[1].address = <<171, 205>> \o Zeros(ADDRESS_SIZE - 3) \o <<238>>
    /\ matched = <<FALSE>>

-----------------------------------------------------------------------------
(* Claims about a run, checked under Spec. *)

SaltVariant == unwrap(config.config).salt_variant

FindingLines == {i \in DOMAIN file : file[i].type = "finding"}

ContainsAt(bytes, offset, part) ==
    /\ offset + Len(part) <= Len(bytes)
    /\ SubSeq(bytes, offset + 1, offset + Len(part)) = part

\* The eight bytes chain_id.to_be_bytes() holds, the low end of the 32 bytes.
ChainIdBytes(sv) == SubSeq(sv.chain_id, CHAIN_ID_OFFSET + 1, SALT_SIZE)

\* C10: with a Sender, Crosschain or CrosschainSender variant, the salt of every
\* finding written carries the calling address and/or the chain id at offsets
\* that are the same for all findings.
C10_FixedBytesInEverySalt ==
    (pc = "running" /\ SaltVariant.kind # "Random") =>
        \E oa \in 0..SALT_SIZE, oc \in 0..SALT_SIZE :
            \A i \in FindingLines :
                /\ SaltVariant.calling_address # <<>> =>
                      ContainsAt(file[i].salt, oa, SaltVariant.calling_address)
                /\ SaltVariant.chain_id # <<>> =>
                      ContainsAt(file[i].salt, oc, ChainIdBytes(SaltVariant))

\* What the host has handed the oracle for the batch dispatched last.
OracleInput == bind_group_inputs(message_buffer, pattern_config)

Contains(bytes, part) == \E offset \in 0..Len(bytes) : ContainsAt(bytes, offset, part)

\* C12: the input handed to the oracle for a batch holds, besides the counter,
\* the factory address of the run and, for Create2, its init-code hash.
C12_OracleInputHasDerivationParameters ==
    (pc = "running" /\ covered # <<>>) =>
        /\ Contains(OracleInput, unwrap(config.config).factory_address)
        /\ unwrap(config.config).create_variant.kind = "Create2" =>
              Contains(OracleInput, unwrap(config.config).create_variant.init_code_hash)

\* C14: when the results of a batch cannot be obtained the run ends fatally
\* with a diagnostic: once the mapping of the results has failed, the process
\* has left the loop with an error and has said so on stderr.
C14_OracleFailureIsFatal ==
    map_result = Some("Err") => (pc \in {"exit1", "panic"} /\ stderr # <<>>)

\* The loop is never left through its exit check.
NeverStopped == pc # "stopped"

\* C15: cancellation is cooperative: once the user has asked the running loop
\* to stop, the process is still in its loop, on the way to the next batch
\* boundary, or has moved to Stopped; it has not ended in any other way.
C15_CancellationIsCooperative ==
    interrupted => pc \in {"running", "stopped"}

\* A step of the loop in which the results of a batch were obtained.
ResultsObtained ==
    /\ pc = "running"
    /\ map_result' = Some("Ok")
    /\ total_cycles' # total_cycles \/ pc' = "panic"

\* The indices from i on, in order, of the results the evaluator accepted.
RECURSIVE AcceptedFrom(_, _)
AcceptedFrom(flags, i) ==
    IF i > Len(flags) THEN <<>>
    ELSE (IF flags[i] THEN <<i>> ELSE <<>>) \o AcceptedFrom(flags, i + 1)

\* The line is the finding of result r: its address, and the salt spelling the
\* counter of r, low word then high word, then zeros.
IsFindingOf(line, r) ==
    /\ line.type = "finding"
    /\ line.address = r.address
    /\ line.salt = r.nonce_low \o r.nonce_high \o Zeros(SALT_SIZE - 8)

\* The step appended to the file one finding per accepted result of the batch,
\* in result order, and nothing else.
AppendedTheAccepted ==
    LET accepted == AcceptedFrom(matched', 1)
    IN  /\ Len(file') = Len(file) + Len(accepted)
        /\ SubSeq(file', 1, Len(file)) = file
        /\ \A k \in 1..Len(accepted) :
              IsFindingOf(file'[Len(file) + k], results'[accepted[k]])

C20_InvalidRunSpecTouchesNothing ==
    [][config'.status = "Err" =>
        /\ pc' = "exit1"
        /\ stderr' = <<Error(config'.msg)>>
        /\ covered' = <<>> /\ total_cycles' = 0 /\ map_result' = None
        /\ file' = file]_vars

C20_Witness ==
    /\ config = Err("factory address uses invalid checksum")
    /\ pc = "exit1"
    /\ file = <<OldLine>>
    /\ covered = <<>>

\* gpu() has reached its loop and has dispatched no batch yet.
LoopStarts == pc = "running" /\ covered = <<>>

\* A '#' line other than the timestamp line that carries a value, the pattern
\* when the reward is a pattern.
DescribesReward(line, reward) ==
    /\ line.type = "comment"
    /\ line.text # "# Started: {}"
    /\ line.arg # <<>>
    /\ reward.kind = "Matching" => line.arg = reward.pattern

\* The output holds '#' lines and blank lines only, one of them the start
\* timestamp: nothing of an earlier run is left.
HoldsOnlyAHeader ==
    /\ FindingLines = {}
    /\ \A i \in DOMAIN file : file[i].type \in {"comment", "blank"}
    /\ \E i \in DOMAIN file, now \in StartTimes :
          file[i] = Comment("# Started: {}", <<now>>)

\* C22: when the loop starts the output holds only this run's header, no
\* finding of an earlier run, and the header records the reward description
\* and the start timestamp, whatever the reward variant.
C22_RunStartsFromItsOwnHeader ==
    LoopStarts =>
        /\ HoldsOnlyAHeader
        /\ \E i \in DOMAIN file : DescribesReward(file[i], Reward)

\* The part of C22 that does not depend on the reward description.
PriorFindingsDiscarded == LoopStarts => HoldsOnlyAHeader

\* The step is a pass of the loop that obtained its results and in which the
\* environment failed: these failures are the open for append and the writes.
PersistFailed == ResultsObtained /\ faults' > faults

\* The step is such a pass and reported a failed write.
WriteFailed == ResultsObtained /\ Len(stderr') > Len(stderr)

\* The pass went through every match of the batch, advanced the counter by one
\* batch and left gpu() in its loop, about to dispatch the next one.
LoopGoesOn ==
    /\ pc' = "running"
    /\ Len(found_list') = Len(found_list) + Len(AcceptedFrom(matched', 1))
    /\ nonce' = add_le(nonce, work_size)
    /\ total_cycles' = total_cycles + 1

\* C23: a failure to persist a finding during the run, whether the output
\* cannot be opened for append or a line cannot be written, does not abort the
\* loop: the remaining matches of the batch are processed, the counter
\* advances and the next batch is dispatched.
C23_PersistFailureDoesNotAbort ==
    [][PersistFailed => LoopGoesOn]_vars

\* The part of C23 about a line that cannot be written.
WriteFailureDoesNotAbort ==
    [][WriteFailed => LoopGoesOn]_vars

-----------------------------------------------------------------------------
(* Claims about the counter, checked under SpecCounter. *)

\* Two ranges [first, next) of counters have no counter in common.
Disjoint(r, q) == ~less_le(r.first, q.next) \/ ~less_le(q.first, r.next)

\* C11: the counter handed to the oracle is never reused: the ranges
\* [base, base + batch size) of the batches dispatched so far, whatever their
\* number, have pairwise no counter in common (so their bases differ).
C11_CounterNeverReused ==
    \A i, j \in DOMAIN covered : i # j => Disjoint(covered[i], covered[j])

-----------------------------------------------------------------------------
(* Claims about two runs on one output path, checked under SpecTwoRuns. *)

\* C13: the output is locked for the whole of a run: while the first process
\* is in its loop, a step of a second process started on the same path neither
\* truncates the file nor appends to it.
C13_OutputLockedForTheRun ==
    [][(pc = "running" /\ other' # other) => file' = file]_vars

=============================================================================
